---- MODULE Spec2Model ----
(***************************************************************************)
(* Model of cnc, the Conventional Commit Creator: the workflow of          *)
(* src/index.js (main, getCommitData), the prompts of src/lib/prompts.js,  *)
(* the validator/renderer of lib/validator.js, the draft generator of      *)
(* src/lib/ollama.js and the git collaborator of src/lib/commit.js.        *)
(*                                                                         *)
(* Strings are sequences of one-character strings, so that lengths,        *)
(* concatenation, case conversion and regular-expression tests are         *)
(* computed as the code computes them.  One action is the code that runs   *)
(* between two suspension points (a prompt or a network call).             *)
(***************************************************************************)
EXTENDS Integers, Sequences, FiniteSets, TLC

VARIABLES
    flags,          \* result of parseFlags()
    pc,             \* where the run is suspended
    diff,           \* main: const diff = getStagedDiff()
    branchRef,      \* main: const branchRef
    commitData,     \* the record threaded through getCommitData / main
    wasEdited,      \* main: wasEdited returned by getCommitData
    message,        \* main: let message
    preview,        \* the note shown with the open menu (review or confirmation)
    formKind,       \* which p.group is open: "manual" (runPrompts), "edit" (editAiSuggestion)
    formCaller,     \* who awaits the form: "getCommitData" or "confirmLoop"
    field,          \* the field of the open form whose prompt is shown
    results,        \* p.group's results so far
    exitCode,       \* process exit code, -1 while running
    shown,          \* user-visible messages written by the last step
    lastAnswer,     \* the user's answer consumed by the last step
    lastPrompt,     \* the prompt that answer was given to: <<caller, form or menu, field>>
    ollamaReady,    \* getCommitData: what isOllamaAvailable() answered, "unset" before
    prompted,       \* TRUE once any prompt has been shown
    probeCalls,     \* number of isOllamaAvailable() calls
    genCalls,       \* number of generateCommitMessage() calls
    commitCalls,    \* number of executeCommit() calls
    committed,      \* the string handed to executeCommit
    genFailed,      \* TRUE once a generateCommitMessage() call has thrown
    placementsDone, \* number of times index.js 142-158 decided the placement
    unreported,     \* the calls that failed and that no message has told the user of
    pureFn,         \* the function called on its own, "none" in a run of main
    pureArg,        \* the argument it is called with
    pureOut,        \* what it returned
    pureDone        \* TRUE once it has returned

vars == <<flags, pc, diff, branchRef, commitData, wasEdited, message, preview, formKind,
          formCaller, field, results, exitCode, shown, lastAnswer, lastPrompt,
          ollamaReady, prompted,
          probeCalls, genCalls, commitCalls, committed, genFailed, placementsDone,
          unreported,
          pureFn, pureArg, pureOut, pureDone>>

----------------------------------------------------------------------------
(* Bounds of the model *)

\* generateCommitMessage is called at most MaxGen times in a run
MaxGen == 2

\* length of the long description the draft generator may return
LongLen == 64

----------------------------------------------------------------------------
(* JavaScript values *)

\* undefined / null: a one-element sequence no string of characters equals
Undef == <<"undefined">>
Null == <<"null">>
Empty == << >>

\* JS truthiness of a string-or-absent value
Truthy(s) == s # Undef /\ s # Null /\ s # Empty

Whitespace == {" ", "\t", "\n"}

\* String.prototype.trim() === ''
IsBlank(s) == \A i \in 1..Len(s) : s[i] \in Whitespace

UpperChars == <<"A","B","C","D","E","F","G","H","I","J","K","L","M",
                "N","O","P","Q","R","S","T","U","V","W","X","Y","Z">>
LowerChars == <<"a","b","c","d","e","f","g","h","i","j","k","l","m",
                "n","o","p","q","r","s","t","u","v","w","x","y","z">>
Digits == {"0","1","2","3","4","5","6","7","8","9"}

\* String.prototype.toLowerCase() on one character
ToLowerCase(c) ==
    IF \E i \in 1..Len(UpperChars) : UpperChars[i] = c
    THEN LowerChars[CHOOSE i \in 1..Len(UpperChars) : UpperChars[i] = c]
    ELSE c

\* ' '.repeat(n)
RECURSIVE Repeat(_, _)
Repeat(c, n) == IF n <= 0 THEN Empty ELSE <<c>> \o Repeat(c, n - 1)

\* the character class [a-zA-Z0-9_-]
ScopeChars ==
    {UpperChars[i] : i \in 1..Len(UpperChars)} \cup
    {LowerChars[i] : i \in 1..Len(LowerChars)} \cup Digits \cup {"_", "-"}

\* /^[a-zA-Z0-9_-]+$/.test(value)
MatchesScopeRegex(s) == Len(s) > 0 /\ \A i \in 1..Len(s) : s[i] \in ScopeChars

----------------------------------------------------------------------------
(* lib/validator.js *)

feat == <<"f","e","a","t">>
fix == <<"f","i","x">>
docs == <<"d","o","c","s">>
style == <<"s","t","y","l","e">>
refactor == <<"r","e","f","a","c","t","o","r">>
perf == <<"p","e","r","f">>
test == <<"t","e","s","t">>
build == <<"b","u","i","l","d">>
ci == <<"c","i">>
chore == <<"c","h","o","r","e">>
revert == <<"r","e","v","e","r","t">>

COMMIT_TYPES == <<feat, fix, docs, style, refactor, perf, test, build, ci, chore, revert>>

validateCommitType(type) == \E i \in 1..Len(COMMIT_TYPES) : COMMIT_TYPES[i] = type

validateScope(scope) ==
    IF ~Truthy(scope) \/ IsBlank(scope) THEN TRUE ELSE MatchesScopeRegex(scope)

\* mutant of validateDescription: the emptiness check has no trim()
validateDescriptionNoTrim(description) ==
    IF ~Truthy(description) THEN "Description is required"
    ELSE IF description[Len(description)] = "."
         THEN "Description should not end with a period"
         ELSE "ok"

\* "ok", or the reason of the failure
validateDescription(description) ==
    IF ~Truthy(description) \/ IsBlank(description) THEN "Description is required"
    ELSE IF description[Len(description)] = "."
         THEN "Description should not end with a period"
         ELSE "ok"

\* mutant of LowerFirst: description.toLowerCase()
LowerFirstAll(description) == [i \in 1..Len(description) |-> ToLowerCase(description[i])]

\* description.charAt(0).toLowerCase() + description.slice(1)
LowerFirst(description) ==
    IF Len(description) = 0 THEN Empty
    ELSE <<ToLowerCase(description[1])>> \o SubSeq(description, 2, Len(description))

\* the first line of buildCommitMessage
Header(data) ==
    data.type
    \o (IF Truthy(data.scope) THEN <<"(">> \o data.scope \o <<")">> ELSE Empty)
    \o (IF data.isBreaking THEN <<"!">> ELSE Empty)
    \o <<":", " ">> \o LowerFirst(data.description)

BreakingPrefix ==
    <<"B","R","E","A","K","I","N","G"," ","C","H","A","N","G","E",":"," ">>

\* mutant of buildCommitMessage: the scope is tested with !== undefined, so
\* an empty scope is rendered as "()"
buildCommitMessageEmptyScope(data) ==
    data.type
    \o (IF data.scope # Undef THEN <<"(">> \o data.scope \o <<")">> ELSE Empty)
    \o (IF data.isBreaking THEN <<"!">> ELSE Empty)
    \o <<":", " ">> \o LowerFirst(data.description)
    \o (IF data.isBreaking /\ Truthy(data.breakingDescription)
        THEN <<"\n", "\n">> \o BreakingPrefix \o data.breakingDescription
        ELSE Empty)
    \o (IF Truthy(data.footer) THEN <<"\n", "\n">> \o data.footer ELSE Empty)

\* mutant of buildCommitMessage: the body is added whenever there is a
\* breakingDescription, without looking at isBreaking
buildCommitMessageBodyUnguarded(data) ==
    Header(data)
    \o (IF Truthy(data.breakingDescription)
        THEN <<"\n", "\n">> \o BreakingPrefix \o data.breakingDescription
        ELSE Empty)
    \o (IF Truthy(data.footer) THEN <<"\n", "\n">> \o data.footer ELSE Empty)

\* mutant of buildCommitMessage: the '!' of a breaking change is left out
buildCommitMessageNoBang(data) ==
    data.type
    \o (IF Truthy(data.scope) THEN <<"(">> \o data.scope \o <<")">> ELSE Empty)
    \o <<":", " ">> \o LowerFirst(data.description)
    \o (IF data.isBreaking /\ Truthy(data.breakingDescription)
        THEN <<"\n", "\n">> \o BreakingPrefix \o data.breakingDescription
        ELSE Empty)
    \o (IF Truthy(data.footer) THEN <<"\n", "\n">> \o data.footer ELSE Empty)

buildCommitMessage(data) ==
    Header(data)
    \o (IF data.isBreaking /\ Truthy(data.breakingDescription)
        THEN <<"\n", "\n">> \o BreakingPrefix \o data.breakingDescription
        ELSE Empty)
    \o (IF Truthy(data.footer) THEN <<"\n", "\n">> \o data.footer ELSE Empty)

\* the limit validateHeaderLength compares the header against
HeaderLimit == 72

validateHeaderLength(data) ==
    [valid |-> Len(Header(data)) <= HeaderLimit,
     length |-> Len(Header(data)),
     limit |-> HeaderLimit]

----------------------------------------------------------------------------
(* lib/commit.js *)

\* leading / trailing whitespace removed, as String.prototype.trim()
RECURSIVE TrimLeft(_)
TrimLeft(s) ==
    IF Len(s) > 0 /\ s[1] \in Whitespace THEN TrimLeft(Tail(s)) ELSE s

RECURSIVE TrimRight(_)
TrimRight(s) ==
    IF Len(s) > 0 /\ s[Len(s)] \in Whitespace
    THEN TrimRight(SubSeq(s, 1, Len(s) - 1)) ELSE s

Trim(s) == TrimRight(TrimLeft(s))

\* String.prototype.indexOf(c): 0-based, -1 when absent
IndexOf(s, c) ==
    IF \E i \in 1..Len(s) : s[i] = c
    THEN (CHOOSE i \in 1..Len(s) : s[i] = c /\ \A j \in 1..(i - 1) : s[j] # c) - 1
    ELSE -1

\* stdout is the output of `git diff --cached`, Undef when execSync throws
getStagedDiff(stdout) ==
    IF stdout = Undef THEN Null
    ELSE IF Trim(stdout) = Empty THEN Null ELSE Trim(stdout)

\* mutant of getBranchReference: lastIndexOf('/') instead of indexOf('/')
getBranchReferenceLast(stdout) ==
    IF stdout = Undef THEN Null
    ELSE LET branchName == Trim(stdout)
             slashes == {i \in 1..Len(branchName) : branchName[i] = "/"}
             last == CHOOSE i \in slashes : \A j \in slashes : j <= i
         IN IF slashes # {} /\ last < Len(branchName)
            THEN SubSeq(branchName, last + 1, Len(branchName))
            ELSE Null

\* stdout is the output of `git rev-parse --abbrev-ref HEAD`, Undef when it throws
getBranchReference(stdout) ==
    IF stdout = Undef THEN Null
    ELSE LET branchName == Trim(stdout)
             slashIndex == IndexOf(branchName, "/")
         IN IF slashIndex # -1 /\ slashIndex < Len(branchName) - 1
            THEN SubSeq(branchName, slashIndex + 2, Len(branchName))
            ELSE Null

\* mutant of executeCommit: the staged files are looked at before the
\* repository check
executeCommitStagedFirst(msg, git) ==
    IF git.status = "empty"
    THEN [success |-> FALSE, error |-> "No changes staged for commit",
          checked |-> TRUE, ran |-> FALSE]
    ELSE IF git.status = "error"
    THEN [success |-> FALSE, error |-> "Failed to check git status",
          checked |-> TRUE, ran |-> FALSE]
    ELSE IF ~git.repo
    THEN [success |-> FALSE, error |-> "Not a git repository",
          checked |-> TRUE, ran |-> FALSE]
    ELSE IF msg = Undef
    THEN [success |-> FALSE, error |-> "Failed to create commit",
          checked |-> TRUE, ran |-> FALSE]
    ELSE IF git.commit
    THEN [success |-> TRUE, error |-> "none", checked |-> TRUE, ran |-> TRUE]
    ELSE [success |-> FALSE, error |-> "Failed to create commit",
          checked |-> TRUE, ran |-> TRUE]

\* git is what the three execSync calls of executeCommit meet:
\* repo (rev-parse succeeds), status ("files", "empty", "error"), commit (succeeds).
\* checked and ran tell whether `git diff --cached --name-only` and `git commit`
\* were run. message.replace is inside the third try block: a message that is
\* not a string ends in its catch, before the command is run.
executeCommit(msg, git) ==
    IF ~git.repo
    THEN [success |-> FALSE, error |-> "Not a git repository",
          checked |-> FALSE, ran |-> FALSE]
    ELSE IF git.status = "empty"
    THEN [success |-> FALSE, error |-> "No changes staged for commit",
          checked |-> TRUE, ran |-> FALSE]
    ELSE IF git.status = "error"
    THEN [success |-> FALSE, error |-> "Failed to check git status",
          checked |-> TRUE, ran |-> FALSE]
    ELSE IF msg = Undef
    THEN [success |-> FALSE, error |-> "Failed to create commit",
          checked |-> TRUE, ran |-> FALSE]
    ELSE IF git.commit
    THEN [success |-> TRUE, error |-> "none", checked |-> TRUE, ran |-> TRUE]
    ELSE [success |-> FALSE, error |-> "Failed to create commit",
          checked |-> TRUE, ran |-> TRUE]

----------------------------------------------------------------------------
(* lib/ollama.js *)

\* response is what fetch(/api/tags) meets: "ok", "http_error", "network_error"
isOllamaAvailable(response) == response = "ok"

\* response is what fetch(/api/generate) meets: kind "network_error" (also a
\* timeout), "http_error", "bad_json", or "json" with the parsed object in json.
\* The second argument of the call in getCommitData is not a parameter of the
\* function: the options are dropped.
\* JSON values that are not strings: true, false and the empty array (a missing
\* key is Undef, null is Null)
JsonTrue == <<"true">>
JsonFalse == <<"false">>
JsonEmptyArray == <<"[]">>

\* Boolean(v), and the test of !v and v || ''
ToBoolean(v) == v \notin {Undef, Null, Empty, JsonFalse}

\* String(v) of a truthy value
StringOf(v) ==
    IF v = JsonEmptyArray THEN Empty
    ELSE IF v = JsonTrue THEN <<"t","r","u","e">>
    ELSE v

generateCommitMessage(diffText, options, response) ==
    IF response.kind # "json" THEN [ok |-> FALSE, data |-> Undef]
    ELSE IF ~ToBoolean(response.json.type) \/ ~ToBoolean(response.json.description)
         THEN [ok |-> FALSE, data |-> Undef]
    ELSE [ok |-> TRUE,
          data |-> [willPublish |-> "undefined",
                    type |-> StringOf(response.json.type),
                    scope |-> IF ToBoolean(response.json.scope)
                              THEN response.json.scope ELSE Empty,
                    description |-> StringOf(response.json.description),
                    isBreaking |-> ToBoolean(response.json.isBreaking),
                    breakingDescription |->
                        IF ToBoolean(response.json.breakingDescription)
                        THEN response.json.breakingDescription ELSE Empty,
                    footer |-> Empty]]

----------------------------------------------------------------------------
(* lib/prompts.js: option sets *)

PUBLISHABLE_TYPES == {feat, fix, perf}

ALL_TYPES == {feat, fix, docs, style, refactor, perf, test, build, ci, chore, revert}

----------------------------------------------------------------------------
(* What the environment and the user can supply *)

ArgSets == SUBSET {"-p", "-h", "-ns", "-nai"}

DiffOutputs == {Undef, Empty, <<" ", "\n">>, <<"+", "x", "\n">>}

BranchOutputs == {Undef, <<"m","a","i","n","\n">>, <<"f","/","A","1","\n">>, <<"a","/","\n">>}

ProbeResponses == {"ok", "http_error", "network_error"}

LongDesc == Repeat("x", LongLen)

JsonTypes == {fix, docs, <<"f","e","a","t","u","r","e">>,
              <<"f","i","x","(","u","i",")">>, Undef}
JsonScopes == {Undef, <<"u","i">>}
JsonDescriptions == {<<"U","p","d","a","t","e">>, LongDesc, Empty}
JsonBreaking == {[isBreaking |-> JsonFalse, breakingDescription |-> Empty],
                 [isBreaking |-> JsonTrue, breakingDescription |-> <<"x">>],
                 [isBreaking |-> JsonTrue, breakingDescription |-> Undef]}

NoJson == [type |-> Undef, scope |-> Undef, description |-> Undef,
           isBreaking |-> JsonFalse, breakingDescription |-> Undef]

GenerateResponses ==
    {[kind |-> k, json |-> NoJson] : k \in {"network_error", "http_error", "bad_json"}}
    \cup
    {[kind |-> "json",
      json |-> [type |-> t, scope |-> s, description |-> d,
                isBreaking |-> b.isBreaking,
                breakingDescription |-> b.breakingDescription]] :
        t \in JsonTypes, s \in JsonScopes, d \in JsonDescriptions, b \in JsonBreaking}

GitStates == [repo : BOOLEAN, status : {"files", "empty", "error"}, commit : BOOLEAN]

ScopeInputs == {Empty, <<"a","p","i">>, <<"a"," ","b">>}
DescriptionInputs == {<<"A","d","d">>, Empty, <<" ">>, <<".">>, <<"f","i","x",".">>,
                      Repeat("y", HeaderLimit)}
BreakingInputs == {<<"b","c">>, Empty, <<" ">>}
FooterInputs == {Empty, <<"C","l","o","s","e","s"," ","#","1">>}

\* the options the user is seen to pick in a type select, when offered
TypePicks == {feat, docs}

----------------------------------------------------------------------------
(* State *)

NoRecord == [willPublish |-> "undefined", type |-> Undef, scope |-> Undef,
             description |-> Undef, isBreaking |-> FALSE,
             breakingDescription |-> Undef, footer |-> Undef]

NoResults == [willPublish |-> FALSE, type |-> Undef, scope |-> Undef,
              description |-> Undef, isBreaking |-> FALSE,
              breakingDescription |-> Undef, footer |-> Undef]

\* index.js parseFlags: args is process.argv.slice(2)
parseFlags(args) ==
    [publish |-> "-p" \in args,
     branchInHeader |-> "-h" \in args,
     noScope |-> "-ns" \in args,
     noAi |-> "-nai" \in args]

NoPrompt == <<"none", "none", "none">>

formVars == <<formKind, formCaller, field, results>>
callVars == <<probeCalls, genCalls, commitCalls, committed>>
histVars == <<genFailed, placementsDone, unreported>>
mainVars == <<flags, diff, branchRef, ollamaReady>>
pureVars == <<pureFn, pureArg, pureOut, pureDone>>

\* the state of main when the process starts
Launch ==
    /\ flags \in {parseFlags(args) : args \in ArgSets}
    /\ pc = "start"
    /\ diff = Undef
    /\ branchRef = Undef
    /\ commitData = NoRecord
    /\ wasEdited = FALSE
    /\ message = Undef
    /\ preview = Undef
    /\ formKind = "none"
    /\ formCaller = "none"
    /\ field = "none"
    /\ results = NoResults
    /\ exitCode = -1
    /\ shown = {}
    /\ lastAnswer = "none"
    /\ lastPrompt = NoPrompt
    /\ ollamaReady = "unset"
    /\ prompted = FALSE
    /\ probeCalls = 0
    /\ genCalls = 0
    /\ commitCalls = 0
    /\ committed = Undef
    /\ genFailed = FALSE
    /\ placementsDone = 0
    /\ unreported = {}

\* the program is run as a whole: no function is called on its own
Init ==
    /\ Launch
    /\ pureFn = "none"
    /\ pureArg = Undef
    /\ pureOut = Undef
    /\ pureDone = FALSE

----------------------------------------------------------------------------
(* Steps shared by the handlers *)

HeaderWarning(data) ==
    IF validateHeaderLength(data).valid THEN {} ELSE {"warn: header is too long"}

\* the messages of index.js that tell the user of a failed call: the staged
\* diff (124), the branch name (140), the probe (110), the generation (63) and
\* the commit (198, the error executeCommit returned)
FailureMessages(f) ==
    IF f = "diff" THEN {"error: no changes staged for commit"}
    ELSE IF f = "branch" THEN {"warn: flag -h, no branch reference"}
    ELSE IF f = "probe" THEN {"info: Ollama not available, using manual mode"}
    ELSE IF f = "generate" THEN {"error: failed to generate with AI"}
    ELSE {"Not a git repository", "No changes staged for commit",
          "Failed to check git status", "Failed to create commit"}

\* the calls of failed that the messages written by this step leave untold
Follow(failed) ==
    unreported' = {f \in unreported \cup failed : FailureMessages(f) \cap shown' = {}}

CloseForm ==
    /\ formKind' = "none"
    /\ formCaller' = "none"
    /\ field' = "none"
    /\ results' = NoResults

\* process.exit(code), after msgs were written: the process and its memory are
\* gone; what remains is what the outside saw (the exit code, the messages, the
\* calls made and the string handed to git)
Exit(code, msgs) ==
    /\ pc' = "exited"
    /\ exitCode' = code
    /\ shown' = msgs
    /\ preview' = Undef
    /\ commitData' = NoRecord
    /\ wasEdited' = FALSE
    /\ message' = Undef
    /\ CloseForm

\* main ends after executeCommit (index.js 193-200); the record and the text
\* that were handed over stay readable in the final state
Finish(code, msgs) ==
    /\ pc' = "exited"
    /\ exitCode' = code
    /\ shown' = msgs
    /\ preview' = Undef
    /\ UNCHANGED <<commitData, wasEdited, message, formVars>>

\* the fields of the two forms, in the order p.group asks them
FormFields(kind) ==
    IF kind = "manual"
    THEN <<"willPublish", "type", "scope", "description", "isBreaking",
           "breakingDescription", "footer">>
    ELSE <<"willPublish", "type", "scope", "description", "isBreaking",
           "breakingDescription">>

\* mutant of IsSkipped: the breaking-description prompt is shown whatever
\* isBreaking was answered
IsSkippedKeepsBreaking(f, res) ==
    \/ f = "willPublish" /\ flags.publish
    \/ f = "scope" /\ flags.noScope

\* a field p.group resolves without showing a prompt
IsSkipped(f, res) ==
    \/ f = "willPublish" /\ flags.publish
    \/ f = "scope" /\ flags.noScope
    \/ f = "breakingDescription" /\ ~res.isBreaking

\* the value such a field resolves to
SkipFill(f, res) ==
    IF f = "willPublish" THEN [res EXCEPT !.willPublish = TRUE]
    ELSE IF f = "scope" THEN [res EXCEPT !.scope = Undef]
    ELSE [res EXCEPT !.breakingDescription = Undef]

\* p.group from position i on: the next field that shows a prompt, or done
RECURSIVE NextPrompt(_, _, _)
NextPrompt(kind, i, res) ==
    IF i > Len(FormFields(kind)) THEN [done |-> TRUE, field |-> "none", res |-> res]
    ELSE IF IsSkipped(FormFields(kind)[i], res)
         THEN NextPrompt(kind, i + 1, SkipFill(FormFields(kind)[i], res))
         ELSE [done |-> FALSE, field |-> FormFields(kind)[i], res |-> res]

FieldIndex(kind, f) == CHOOSE i \in 1..Len(FormFields(kind)) : FormFields(kind)[i] = f

\* what runPrompts logs before its first prompt
RunPromptsInfo ==
    (IF flags.publish THEN {"info: flag -p"} ELSE {})
    \cup (IF flags.noScope THEN {"info: flag -ns"} ELSE {})

\* runPrompts(flags) or editAiSuggestion(commitData, flags) is called: the form
\* opens on its first prompt
OpenForm(kind, caller, msgs) ==
    LET first == NextPrompt(kind, 1, NoResults) IN
    /\ pc' = "form"
    /\ formKind' = kind
    /\ formCaller' = caller
    /\ field' = first.field
    /\ results' = first.res
    /\ prompted' = TRUE
    /\ preview' = Undef
    /\ shown' = msgs \cup (IF kind = "manual" THEN RunPromptsInfo ELSE {})

\* mutant of ShowConfirm: the text to commit is rendered once, before the loop,
\* and the loop only refreshes the note it shows
ShowConfirmStale(data, msgs) ==
    /\ commitData' = data
    /\ message' = (IF message = Undef THEN buildCommitMessage(data) ELSE message)
    /\ preview' = buildCommitMessage(data)
    /\ pc' = "confirm"
    /\ prompted' = TRUE
    /\ shown' = msgs \cup (IF validateHeaderLength(data).valid THEN {}
                           ELSE {"warn: header is too long"})

\* index.js 160-173 and 180-186: the header warning, then the preview
ShowConfirm(data, msgs) ==
    /\ commitData' = data
    /\ message' = buildCommitMessage(data)
    /\ preview' = buildCommitMessage(data)
    /\ pc' = "confirm"
    /\ prompted' = TRUE
    /\ shown' = msgs \cup HeaderWarning(data)

\* mutant of ApplyPlacement: the header form of part_002 86 (no brackets) and a
\* footer that replaces what was there
ApplyPlacementOld(data, placement) ==
    IF placement = "header"
    THEN [data EXCEPT !.description = data.description \o <<" ">> \o branchRef]
    ELSE IF placement = "footer"
    THEN [data EXCEPT !.footer = <<"R","e","f","s"," ","#">> \o branchRef]
    ELSE data

\* index.js 146-156: the placement applied to the record
ApplyPlacement(data, placement) ==
    IF placement = "header"
    THEN [data EXCEPT !.description = data.description \o <<" ", "[">> \o branchRef \o <<"]">>]
    ELSE IF placement = "footer"
    THEN [data EXCEPT !.footer =
            IF Truthy(data.footer)
            THEN data.footer \o <<"\n">> \o <<"R","e","f","s"," ","#">> \o branchRef
            ELSE <<"R","e","f","s"," ","#">> \o branchRef]
    ELSE data

\* mutant of ApplyNoScope: main clears the scope to '' as getCommitData 70 does
ApplyNoScopeEmpty(data) == IF flags.noScope THEN [data EXCEPT !.scope = Empty] ELSE data

\* index.js 134-136
ApplyNoScope(data) == IF flags.noScope THEN [data EXCEPT !.scope = Undef] ELSE data

\* mutant of ForceHeader: the -h flag forces the header whether or not the
\* record was edited
ForceHeaderIgnoresEdit(edited) == flags.branchInHeader

\* index.js 143: flags.branchInHeader && !wasEdited
ForceHeader(edited) == flags.branchInHeader /\ ~edited

\* getCommitData returns {data, wasEdited}: main goes on (index.js 132-173) up
\* to the placement prompt or the first preview
ReturnCommitData(data, edited, msgs) ==
    LET d == ApplyNoScope(data)
        warn == IF flags.branchInHeader /\ branchRef = Null
                THEN {"warn: flag -h, no branch reference"} ELSE {}
    IN
    /\ wasEdited' = edited
    /\ IF branchRef # Null
       THEN IF ForceHeader(edited)
            THEN /\ ShowConfirm(ApplyPlacement(d, "header"), msgs \cup warn)
                 /\ placementsDone' = placementsDone + 1
            ELSE /\ commitData' = d
                 /\ placementsDone' = placementsDone
                 /\ pc' = "placement"
                 /\ prompted' = TRUE
                 /\ shown' = msgs \cup warn
                 /\ preview' = Undef
                 /\ message' = message
       ELSE /\ ShowConfirm(d, msgs \cup warn)
            /\ placementsDone' = placementsDone
    /\ Follow({})

\* index.js 55-59: the spinner starts and the generation request is sent
StartGenerate(msgs) ==
    /\ pc' = "generating"
    /\ genCalls' = genCalls + 1
    /\ preview' = Undef
    /\ shown' = msgs

----------------------------------------------------------------------------
(* index.js main 116-132 and getCommitData 36-43: from the launch to the     *)
(* first suspension point                                                   *)

\* mutant of NoStagedChanges: main does not check the staged diff
NoStagedChangesNever(d) == FALSE

\* mutant of SkipAi: the -nai flag is ignored
SkipAiNever == FALSE

\* index.js 123: if (!diff)
NoStagedChanges(d) == ~Truthy(d)

\* index.js 38: if (flags.noAi)
SkipAi == flags.noAi

Start ==
    /\ pc = "start"
    /\ UNCHANGED pureVars
    /\ \E dout \in DiffOutputs, bout \in BranchOutputs :
        /\ diff' = getStagedDiff(dout)
        /\ lastAnswer' = "none"
        /\ lastPrompt' = NoPrompt
        /\ IF NoStagedChanges(getStagedDiff(dout))
           THEN /\ Exit(1, {"error: no changes staged for commit"})
                /\ Follow(IF dout = Undef THEN {"diff"} ELSE {})
                /\ UNCHANGED <<flags, branchRef, ollamaReady, prompted, callVars,
                               genFailed, placementsDone>>
           ELSE /\ branchRef' = getBranchReference(bout)
                /\ IF SkipAi
                   THEN /\ OpenForm("manual", "getCommitData", {})
                        /\ UNCHANGED <<flags, ollamaReady, commitData, wasEdited, message,
                                       exitCode, callVars, genFailed, placementsDone>>
                   ELSE /\ pc' = "probe"
                        /\ probeCalls' = probeCalls + 1
                        /\ shown' = {}
                        /\ UNCHANGED <<flags, ollamaReady, commitData, wasEdited, message, preview,
                                       formVars, exitCode, prompted, genCalls,
                                       commitCalls, committed, genFailed, placementsDone>>
                /\ Follow(IF bout = Undef THEN {"branch"} ELSE {})

(* getCommitData 43-59 and 108-112: the availability probe has returned *)

\* mutant of TryAi: the else branch of getCommitData is never taken
TryAiAlways(ready) == TRUE

\* getCommitData 45: if (ollamaReady)
TryAi(ready) == ready

Probe ==
    /\ pc = "probe"
    /\ UNCHANGED pureVars
    /\ \E response \in ProbeResponses :
        /\ lastAnswer' = "none"
        /\ lastPrompt' = NoPrompt
        /\ ollamaReady' = (IF isOllamaAvailable(response) THEN "true" ELSE "false")
        /\ IF TryAi(isOllamaAvailable(response))
           THEN /\ StartGenerate({})
                /\ UNCHANGED <<flags, diff, branchRef, commitData, wasEdited, message,
                               formVars, exitCode, prompted, probeCalls,
                               commitCalls, committed, genFailed, placementsDone>>
           ELSE /\ OpenForm("manual", "getCommitData",
                            {"info: Ollama not available, using manual mode"})
                /\ UNCHANGED <<flags, diff, branchRef, commitData, wasEdited, message,
                               exitCode, callVars, genFailed, placementsDone>>
        /\ Follow(IF response = "ok" THEN {} ELSE {"probe"})

(* getCommitData 51-52 *)

publishableTypeValues == PUBLISHABLE_TYPES

generateOptions ==
    IF flags.publish THEN [allowedTypes |-> publishableTypeValues]
    ELSE [allowedTypes |-> {}]

\* mutant of DraftHeaderWarning: the header is checked as it is, without the
\* overhead of the reference
DraftHeaderWarningNoOverhead(data) == HeaderWarning(data)

\* getCommitData 79-84: the header check with the overhead of a pending reference
DraftHeaderWarning(data) ==
    LET refOverhead == IF flags.branchInHeader /\ Truthy(branchRef)
                       THEN Len(<<" ", "[">> \o branchRef \o <<"]">>) ELSE 0
    IN HeaderWarning([data EXCEPT !.description = data.description \o Repeat(" ", refOverhead)])

\* getCommitData 93-95: previewData, a copy of the candidate with the reference
\* spliced into the description
PreviewData(data) ==
    IF Truthy(branchRef)
    THEN [data EXCEPT !.description =
             data.description \o <<" ", "[">> \o branchRef \o <<"]">>]
    ELSE data

\* getCommitData 92-96: the text of the draft preview
DraftPreview(data) == buildCommitMessage(PreviewData(data))

\* mutant of ShowDraft: the reference is spliced into the candidate itself
\* instead of into a copy
ShowDraftSpliced(candidate) ==
    /\ commitData' = PreviewData(candidate)
    /\ pc' = "review"
    /\ prompted' = TRUE
    /\ preview' = DraftPreview(candidate)
    /\ shown' = DraftHeaderWarning(candidate)
    /\ UNCHANGED <<mainVars, wasEdited, message,
                   formVars, exitCode, callVars, histVars>>

\* getCommitData 79-97: the header warning and the preview of the candidate,
\* then the review menu
ShowDraft(candidate) ==
    /\ commitData' = candidate
    /\ pc' = "review"
    /\ prompted' = TRUE
    /\ preview' = DraftPreview(candidate)
    /\ shown' = DraftHeaderWarning(candidate)
    /\ UNCHANGED <<mainVars, wasEdited, message,
                   formVars, exitCode, callVars, histVars>>

\* mutant of NeedsForcedEdit: the publishable check is missing
NeedsForcedEditNever(candidate) == FALSE

\* getCommitData 74: the -p flag is set and the AI-chosen type is not publishable
NeedsForcedEdit(candidate) ==
    flags.publish /\ candidate.type \notin publishableTypeValues

\* mutant of GenerateFailure: the catch block logs the error and sends the
\* request again instead of returning the manual form
GenerateFailureRetries ==
    /\ genFailed' = TRUE
    /\ pc' = "generating"
    /\ genCalls' = genCalls + 1
    /\ preview' = Undef
    /\ shown' = {"error: failed to generate with AI"}
    /\ Follow({"generate"})
    /\ UNCHANGED <<mainVars, commitData, wasEdited, message, formVars, exitCode,
                   prompted, probeCalls, commitCalls, committed, placementsDone>>

\* getCommitData 61-66: the catch block around generateCommitMessage
GenerateFailure ==
    /\ genFailed' = TRUE
    /\ OpenForm("manual", "getCommitData",
                {"error: failed to generate with AI",
                 "warn: falling back to manual mode"})
    /\ commitData' = NoRecord
    /\ Follow({"generate"})
    /\ UNCHANGED <<mainVars, wasEdited, message, exitCode, callVars, placementsDone>>

(* getCommitData 59-97: the generation call has returned or thrown *)

Generate ==
    /\ pc = "generating"
    /\ UNCHANGED pureVars
    /\ \E response \in GenerateResponses :
        LET r == generateCommitMessage(diff, generateOptions, response)
            candidate == IF flags.noScope THEN [r.data EXCEPT !.scope = Empty] ELSE r.data
        IN
        /\ lastAnswer' = "none"
        /\ lastPrompt' = NoPrompt
        /\ IF ~r.ok
           THEN GenerateFailure
           ELSE IF NeedsForcedEdit(candidate)
           THEN /\ OpenForm("edit", "getCommitData",
                            {"warn: flag -p, AI selected non-publishable type"})
                /\ commitData' = candidate
                /\ UNCHANGED <<mainVars, wasEdited, message,
                               exitCode, callVars, histVars>>
           ELSE ShowDraft(candidate)

(* prompts.js reviewAiSuggestion 180-199 and getCommitData 97-107 *)

ReviewAccept ==
    /\ lastAnswer' = "accept"
    /\ lastPrompt' = <<"getCommitData", "menu", "review">>
    /\ ReturnCommitData(commitData, FALSE, {})
    /\ UNCHANGED <<mainVars, formVars, exitCode, callVars, genFailed>>

ReviewEdit ==
    /\ lastAnswer' = "edit"
    /\ lastPrompt' = <<"getCommitData", "menu", "review">>
    /\ OpenForm("edit", "getCommitData", {})
    /\ UNCHANGED <<mainVars, commitData, wasEdited, message,
                   exitCode, callVars, histVars>>

ReviewManual ==
    /\ lastAnswer' = "manual"
    /\ lastPrompt' = <<"getCommitData", "menu", "review">>
    /\ OpenForm("manual", "getCommitData", {})
    /\ commitData' = NoRecord
    /\ UNCHANGED <<mainVars, wasEdited, message, exitCode, callVars, histVars>>

\* mutant of ReviewRegenerate: the menu is shown again without a new request
ReviewRegenerateKeeps ==
    /\ lastAnswer' = "regenerate"
    /\ lastPrompt' = <<"getCommitData", "menu", "review">>
    /\ shown' = {}
    /\ UNCHANGED <<mainVars, pc, commitData, wasEdited, message, preview, formVars,
                   exitCode, prompted, callVars, histVars>>

ReviewRegenerate ==
    /\ genCalls < MaxGen
    /\ lastAnswer' = "regenerate"
    /\ lastPrompt' = <<"getCommitData", "menu", "review">>
    /\ StartGenerate({})
    /\ UNCHANGED <<mainVars, commitData, wasEdited, message, formVars,
                   exitCode, prompted, probeCalls, commitCalls, committed, histVars>>

\* mutant of ReviewCancel: reviewAiSuggestion returns the cancel symbol instead
\* of exiting, and the loop of getCommitData goes round again
ReviewCancelNoExit ==
    /\ genCalls < MaxGen
    /\ lastAnswer' = "cancel"
    /\ lastPrompt' = <<"getCommitData", "menu", "review">>
    /\ pc' = "generating"
    /\ genCalls' = genCalls + 1
    /\ preview' = Undef
    /\ shown' = {}
    /\ UNCHANGED <<mainVars, commitData, wasEdited, message, formVars,
                   exitCode, prompted, probeCalls, commitCalls, committed, histVars>>

ReviewCancel ==
    /\ lastAnswer' = "cancel"
    /\ lastPrompt' = <<"getCommitData", "menu", "review">>
    /\ Exit(0, {"Operation cancelled."})
    /\ UNCHANGED <<mainVars, prompted, callVars, histVars>>

Review ==
    /\ pc = "review"
    /\ UNCHANGED pureVars
    /\ (ReviewAccept \/ ReviewEdit \/ ReviewManual \/ ReviewRegenerate \/ ReviewCancel)

----------------------------------------------------------------------------
(* prompts.js runPrompts 37-131 and editAiSuggestion 209-297: one prompt of   *)
(* the open p.group is answered                                               *)

\* mutant of FormRecord: editAiSuggestion returns what p.group resolved to,
\* without putting the footer of the original back
FormRecordOwnFooter(res) ==
    [willPublish |-> IF res.willPublish THEN "true" ELSE "false",
     type |-> res.type,
     scope |-> res.scope,
     description |-> res.description,
     isBreaking |-> res.isBreaking,
     breakingDescription |-> res.breakingDescription,
     footer |-> res.footer]

\* mutant of FormRecord: the edited record starts again with an empty footer,
\* as a generated candidate does
FormRecordEmptyFooter(res) ==
    [willPublish |-> IF res.willPublish THEN "true" ELSE "false",
     type |-> res.type,
     scope |-> res.scope,
     description |-> res.description,
     isBreaking |-> res.isBreaking,
     breakingDescription |-> res.breakingDescription,
     footer |-> IF formKind = "manual" THEN res.footer ELSE Empty]

\* the record the form returns (editAiSuggestion 293-296 keeps the footer)
FormRecord(res) ==
    [willPublish |-> IF res.willPublish THEN "true" ELSE "false",
     type |-> res.type,
     scope |-> res.scope,
     description |-> res.description,
     isBreaking |-> res.isBreaking,
     breakingDescription |-> res.breakingDescription,
     footer |-> IF formKind = "manual" THEN res.footer ELSE commitData.footer]

\* mutant of FormDone: the final loop goes back through the placement step
\* after an edit
FormDoneReplaces(res) ==
    /\ CloseForm
    /\ ReturnCommitData(FormRecord(res), TRUE, {})

\* mutant of FormDone: getCommitData returns the record of a form with
\* wasEdited: false
FormDoneUnedited(res) ==
    /\ CloseForm
    /\ IF formCaller = "getCommitData"
       THEN ReturnCommitData(FormRecord(res), FALSE, {})
       ELSE /\ ShowConfirm(FormRecord(res), {})
            /\ wasEdited' = wasEdited
            /\ placementsDone' = placementsDone
            /\ Follow({})

\* the form resolves: back in getCommitData (which returns wasEdited: true),
\* or in the final loop of main (index.js 178-186)
FormDone(res) ==
    /\ CloseForm
    /\ IF formCaller = "getCommitData"
       THEN ReturnCommitData(FormRecord(res), TRUE, {})
       ELSE /\ ShowConfirm(FormRecord(res), {})
            /\ wasEdited' = wasEdited
            /\ placementsDone' = placementsDone
            /\ Follow({})

\* the validator let the value through: p.group goes to the next field
FieldAccepted(res) ==
    LET nxt == NextPrompt(formKind, FieldIndex(formKind, field) + 1, res) IN
    /\ lastAnswer' = "value"
    /\ lastPrompt' = <<formCaller, formKind, field>>
    /\ IF nxt.done
       THEN FormDone(nxt.res)
       ELSE /\ field' = nxt.field
            /\ results' = nxt.res
            /\ shown' = {}
            /\ UNCHANGED <<pc, commitData, wasEdited, message, preview, formKind,
                           formCaller, prompted, placementsDone, unreported>>
    /\ UNCHANGED <<mainVars, exitCode, callVars, genFailed>>

\* the validator returned a message: the prompt stays open
FieldRejected(msg) ==
    /\ lastAnswer' = "invalid"
    /\ lastPrompt' = <<formCaller, formKind, field>>
    /\ shown' = {msg}
    /\ UNCHANGED <<mainVars, pc, commitData, wasEdited, message, preview,
                   formVars, exitCode, prompted, callVars, histVars>>

\* mutant of TypeOptions: the select always offers every type
TypeOptionsAll(res) == ALL_TYPES

\* the options of the type select
TypeOptions(res) == IF res.willPublish THEN PUBLISHABLE_TYPES ELSE ALL_TYPES

\* what the user can submit in a text prompt: something typed, or, in the edit
\* form, the initialValue left as it is
TextInputs(typed, initialValue) ==
    typed \cup (IF formKind = "edit" /\ Truthy(initialValue) THEN {initialValue} ELSE {})

\* mutant of ScopeError: the scope prompt has no validate callback
ScopeErrorNone(value) == "ok"

\* the validate callback of the scope prompt
ScopeError(value) ==
    IF ~Truthy(value) THEN "ok"
    ELSE IF ~MatchesScopeRegex(value) THEN "Scope should only contain letters, numbers, hyphens, and underscores"
    ELSE "ok"

\* the validate callback of the description prompt
DescriptionError(value, res) ==
    IF validateDescription(value) # "ok" THEN validateDescription(value)
    ELSE IF ~validateHeaderLength([type |-> res.type,
                                   scope |-> IF Truthy(res.scope) THEN res.scope ELSE Empty,
                                   description |-> value,
                                   isBreaking |-> FALSE]).valid
         THEN "Header too long"
         ELSE "ok"

\* the validate callback of the breaking-description prompt
BreakingError(value) ==
    IF ~Truthy(value) \/ IsBlank(value) THEN "Breaking change description is required"
    ELSE "ok"

AnswerWillPublish ==
    /\ field = "willPublish"
    /\ \E v \in BOOLEAN : FieldAccepted([results EXCEPT !.willPublish = v])

\* the options the user submits in the type select: one of TypePicks, or, in
\* the edit form, the option the cursor starts on (initialValue: commitData.type)
TypeAnswers ==
    TypeOptions(results) \cap
        (TypePicks \cup (IF formKind = "edit" THEN {commitData.type} ELSE {}))

AnswerType ==
    /\ field = "type"
    /\ \E v \in TypeAnswers : FieldAccepted([results EXCEPT !.type = v])

AnswerScope ==
    /\ field = "scope"
    /\ \E v \in TextInputs(ScopeInputs, commitData.scope) :
        IF ScopeError(v) = "ok"
        THEN FieldAccepted([results EXCEPT !.scope = v])
        ELSE FieldRejected(ScopeError(v))

AnswerDescription ==
    /\ field = "description"
    /\ \E v \in TextInputs(DescriptionInputs, commitData.description) :
        IF DescriptionError(v, results) = "ok"
        THEN FieldAccepted([results EXCEPT !.description = v])
        ELSE FieldRejected(DescriptionError(v, results))

AnswerIsBreaking ==
    /\ field = "isBreaking"
    /\ \E v \in BOOLEAN : FieldAccepted([results EXCEPT !.isBreaking = v])

AnswerBreakingDescription ==
    /\ field = "breakingDescription"
    /\ \E v \in TextInputs(BreakingInputs, commitData.breakingDescription) :
        IF BreakingError(v) = "ok"
        THEN FieldAccepted([results EXCEPT !.breakingDescription = v])
        ELSE FieldRejected(BreakingError(v))

AnswerFooter ==
    /\ field = "footer"
    /\ \E v \in FooterInputs : FieldAccepted([results EXCEPT !.footer = v])

\* onCancel of p.group
FormCancel ==
    /\ lastAnswer' = "cancel"
    /\ lastPrompt' = <<formCaller, formKind, field>>
    /\ Exit(0, {"Operation cancelled."})
    /\ UNCHANGED <<mainVars, prompted, callVars, histVars>>

FormField ==
    /\ pc = "form"
    /\ UNCHANGED pureVars
    /\ \/ AnswerWillPublish
       \/ AnswerType
       \/ AnswerScope
       \/ AnswerDescription
       \/ AnswerIsBreaking
       \/ AnswerBreakingDescription
       \/ AnswerFooter
       \/ FormCancel

----------------------------------------------------------------------------
(* prompts.js askBranchReferencePlacement 312-329 and index.js 145-173 *)

PlacementChoose ==
    \E placement \in {"none", "header", "footer"} :
        /\ lastAnswer' = placement
        /\ lastPrompt' = <<"main", "menu", "placement">>
        /\ ShowConfirm(ApplyPlacement(commitData, placement), {})
        /\ placementsDone' = placementsDone + 1
        /\ Follow({})
        /\ UNCHANGED <<mainVars, wasEdited, formVars, exitCode, callVars, genFailed>>

PlacementCancel ==
    /\ lastAnswer' = "cancel"
    /\ lastPrompt' = <<"main", "menu", "placement">>
    /\ Exit(0, {"Operation cancelled."})
    /\ UNCHANGED <<mainVars, prompted, callVars, histVars>>

Placement ==
    /\ pc = "placement"
    /\ UNCHANGED pureVars
    /\ (PlacementChoose \/ PlacementCancel)

----------------------------------------------------------------------------
(* prompts.js confirmCommit 138-156 and index.js 173-200 *)

\* mutant of CommitExitCode: process.exit(1) only when git commit was not run,
\* so a commit that git refused ends the run like a success
CommitExitCodeRan(result) == IF result.ran THEN 0 ELSE 1

\* index.js 195-200: main returns after showSuccess (the process then ends
\* with code 0) and calls process.exit(1) after showError
CommitExitCode(result) == IF result.success THEN 0 ELSE 1

ConfirmYes ==
    \E git \in GitStates :
        /\ lastAnswer' = "yes"
        /\ lastPrompt' = <<"main", "menu", "confirm">>
        /\ commitCalls' = commitCalls + 1
        /\ committed' = message
        /\ Finish(CommitExitCode(executeCommit(message, git)),
                  IF executeCommit(message, git).success
                  THEN {"Commit created successfully!"}
                  ELSE {executeCommit(message, git).error})
        /\ Follow(IF executeCommit(message, git).success THEN {} ELSE {"commit"})
        /\ UNCHANGED <<mainVars, prompted, probeCalls, genCalls, genFailed, placementsDone>>

\* mutant of ConfirmEdit: 'edit' in the final menu goes back into
\* getCommitData, whose return runs the placement step again
ConfirmEditRestarts ==
    /\ lastAnswer' = "edit"
    /\ lastPrompt' = <<"main", "menu", "confirm">>
    /\ OpenForm("edit", "getCommitData", {})
    /\ UNCHANGED <<mainVars, commitData, wasEdited, message,
                   exitCode, callVars, histVars>>

ConfirmEdit ==
    /\ lastAnswer' = "edit"
    /\ lastPrompt' = <<"main", "menu", "confirm">>
    /\ OpenForm("edit", "confirmLoop", {})
    /\ UNCHANGED <<mainVars, commitData, wasEdited, message,
                   exitCode, callVars, histVars>>

\* mutant of ConfirmNo: the else branch of the loop leaves it instead of exiting
ConfirmNoCommits ==
    /\ lastAnswer' = "no"
    /\ lastPrompt' = <<"main", "menu", "confirm">>
    /\ commitCalls' = commitCalls + 1
    /\ committed' = message
    /\ pc' = "exited"
    /\ exitCode' = 0
    /\ shown' = {"Commit created successfully!"}
    /\ preview' = Undef
    /\ UNCHANGED <<mainVars, commitData, wasEdited, message, formVars, prompted,
                   probeCalls, genCalls, histVars>>

ConfirmNo ==
    /\ lastAnswer' = "no"
    /\ lastPrompt' = <<"main", "menu", "confirm">>
    /\ Exit(0, {})
    /\ UNCHANGED <<mainVars, prompted, callVars, histVars>>

ConfirmCancel ==
    /\ lastAnswer' = "cancel"
    /\ lastPrompt' = <<"main", "menu", "confirm">>
    /\ Exit(0, {"Operation cancelled."})
    /\ UNCHANGED <<mainVars, prompted, callVars, histVars>>

Confirm ==
    /\ pc = "confirm"
    /\ UNCHANGED pureVars
    /\ (ConfirmYes \/ ConfirmEdit \/ ConfirmNo \/ ConfirmCancel)

----------------------------------------------------------------------------

(* index.js 201-204: the catch block of main *)

\* the prompt the run is suspended at
CurrentPrompt ==
    IF pc = "review" THEN <<"getCommitData", "menu", "review">>
    ELSE IF pc = "form" THEN <<formCaller, formKind, field>>
    ELSE IF pc = "placement" THEN <<"main", "menu", "placement">>
    ELSE <<"main", "menu", "confirm">>

\* an awaited prompt rejects (the terminal is gone): nothing between the
\* prompt and the catch block of main handles it
MainCatch ==
    /\ pc \in {"review", "form", "placement", "confirm"}
    /\ UNCHANGED pureVars
    /\ lastAnswer' = "throw"
    /\ lastPrompt' = CurrentPrompt
    /\ Exit(1, {"An error occurred"})
    /\ UNCHANGED <<mainVars, prompted, callVars, histVars>>

----------------------------------------------------------------------------

Next ==
    Start \/ Probe \/ Generate \/ Review \/ FormField \/ Placement \/ Confirm \/ MainCatch

Spec == Init /\ [][Next]_vars

\* The run when every awaited call settles and the user gets out of the loops:
\* the synchronous start runs; the probe and the generation request resolve or
\* reject within their AbortSignal.timeout (ollama.js 22 and 76); an open prompt
\* is answered; a text prompt that keeps rejecting gets a value its validator
\* lets through (or a cancel) at some point; and the final menu, however often
\* 'edit' brings it back, is at some point answered with something else.
\* the command lines the fair runs are launched with
LiveArgSets == {{"-p", "-ns"}, {"-p", "-ns", "-h"}, {"-nai"}}

LiveInit == Init /\ flags \in {parseFlags(args) : args \in LiveArgSets}

LiveSpec ==
    /\ LiveInit
    /\ [][Next]_vars
    /\ WF_vars(Start \/ Probe \/ Generate \/ Review \/ Placement
                  \/ (FormField /\ lastAnswer' # "invalid"))
    /\ SF_vars(Confirm /\ lastAnswer' # "edit")

----------------------------------------------------------------------------
(* The functions of lib/validator.js and lib/commit.js called on their own: *)
(* the argument is drawn at the start, one step applies the function        *)

\* longest string drawn, character by character, as an argument
MaxStr == 3

\* every string over the alphabet of length 0..n
Strings(alphabet, n) == UNION {[1..k -> alphabet] : k \in 0..n}

ScopeArgs == {Undef} \cup Strings({"a", "Z", "0", "_", "-", " ", ".", "\n"}, MaxStr)

DescriptionArgs == {Undef} \cup Strings({"a", "A", " ", "."}, MaxStr)

\* what `git rev-parse --abbrev-ref HEAD` prints, Undef when it fails
BranchArgs == {Undef} \cup {b \o <<"\n">> : b \in Strings({"a", "b", "/"}, MaxStr + 1)}

RenderArgs ==
    [willPublish : {"undefined"},
     type : {feat, ci},
     scope : {Undef, Empty, <<"a","p","i">>},
     description : Strings({"A", "a", "1"}, MaxStr),
     isBreaking : BOOLEAN,
     breakingDescription : {Undef, Empty, <<"x">>},
     footer : {Undef, Empty, <<"R","e","f","s"," ","#","1">>, BreakingPrefix \o <<"x">>}]

\* records whose header is around the limit
HeaderArgs ==
    [willPublish : {"undefined"},
     type : {feat},
     scope : {Undef, Empty, <<"a","p","i">>},
     description : {Repeat("x", n) : n \in (HeaderLimit - 13)..(HeaderLimit - 5)}
                   \cup {<<"X">> \o Repeat("x", HeaderLimit - 7)},
     isBreaking : BOOLEAN,
     breakingDescription : {Undef, <<"x">>},
     footer : {Undef, <<"R","e","f","s"," ","#","1">>}]

\* the message and what the git commands of executeCommit meet
CommitArgs == [message : {Undef, <<"f","i","x",":"," ","a">>}, git : GitStates]

\* what fetch(/api/generate) meets, with JSON values of every kind in the keys
\* generateCommitMessage reads
ResponseArgs ==
    {[kind |-> k, json |-> NoJson] : k \in {"network_error", "http_error", "bad_json"}}
    \cup
    {[kind |-> "json",
      json |-> [type |-> t, scope |-> s, description |-> d, isBreaking |-> b,
                breakingDescription |-> bd]] :
        t \in {fix, Undef, Null, Empty, JsonEmptyArray, JsonTrue},
        s \in {Undef, Null, <<"u","i">>},
        d \in {<<"U","p","d","a","t","e">>, Undef, Empty, JsonEmptyArray},
        b \in {Undef, JsonTrue, JsonFalse, <<"f","a","l","s","e">>},
        bd \in {Undef, <<"x">>}}

runVars == <<flags, pc, diff, branchRef, commitData, wasEdited, message, preview, formKind,
             formCaller, field, results, exitCode, shown, lastAnswer, lastPrompt,
             ollamaReady, prompted, probeCalls, genCalls, commitCalls, committed,
             genFailed, placementsDone, unreported>>

PureInit ==
    /\ Launch
    /\ flags = parseFlags({})
    /\ pureOut = Undef
    /\ pureDone = FALSE
    /\ \/ pureFn = "buildCommitMessage" /\ pureArg \in RenderArgs
       \/ pureFn = "validateHeaderLength" /\ pureArg \in HeaderArgs
       \/ pureFn = "validateScope" /\ pureArg \in ScopeArgs
       \/ pureFn = "validateDescription" /\ pureArg \in DescriptionArgs
       \/ pureFn = "getBranchReference" /\ pureArg \in BranchArgs
       \/ pureFn = "executeCommit" /\ pureArg \in CommitArgs
       \/ pureFn = "generateCommitMessage" /\ pureArg \in ResponseArgs

\* the call returns
Return(value) ==
    /\ ~pureDone
    /\ pureOut' = value
    /\ pureDone' = TRUE
    /\ UNCHANGED <<runVars, pureFn, pureArg>>

ApplyBuildCommitMessage ==
    pureFn = "buildCommitMessage" /\ Return(buildCommitMessage(pureArg))

ApplyValidateHeaderLength ==
    pureFn = "validateHeaderLength" /\ Return(validateHeaderLength(pureArg))

ApplyValidateScope ==
    pureFn = "validateScope" /\ Return(validateScope(pureArg))

ApplyValidateDescription ==
    pureFn = "validateDescription" /\ Return(validateDescription(pureArg))

ApplyGetBranchReference ==
    pureFn = "getBranchReference" /\ Return(getBranchReference(pureArg))

ApplyExecuteCommit ==
    pureFn = "executeCommit" /\ Return(executeCommit(pureArg.message, pureArg.git))

ApplyGenerateCommitMessage ==
    /\ pureFn = "generateCommitMessage"
    /\ Return(generateCommitMessage(<<"+", "x">>, generateOptions, pureArg))

PureNext ==
    \/ ApplyBuildCommitMessage
    \/ ApplyValidateHeaderLength
    \/ ApplyValidateScope
    \/ ApplyValidateDescription
    \/ ApplyGetBranchReference
    \/ ApplyExecuteCommit
    \/ ApplyGenerateCommitMessage

PureSpec == PureInit /\ [][PureNext]_vars

----------------------------------------------------------------------------
(* Properties *)

ConfirmMenu == <<"main", "menu", "confirm">>

\* the type a rendered message starts with: the text before the first of ( ! :
MessageType(msg) ==
    LET stops == {i \in 1..Len(msg) : msg[i] \in {"(", "!", ":"}}
        k == CHOOSE i \in stops : \A j \in stops : i <= j
    IN SubSeq(msg, 1, k - 1)

\* C1: executeCommit is invoked at most once in a run, and only by the step in
\* which the user answered 'yes' at the final confirmation menu.
C1_CommitOnlyAfterYes ==
    /\ commitCalls <= 1
    /\ commitCalls = 1 => lastAnswer = "yes" /\ lastPrompt = ConfirmMenu /\ pc = "exited"
    /\ commitCalls = 0 => committed = Undef

C1_Witness ==
    /\ commitCalls = 1
    /\ exitCode = 0
    /\ genCalls = MaxGen
    /\ wasEdited

\* C2: a cancellation at any prompt, and the answer 'no' at the final
\* confirmation, end the run at once with exit code 0 and without executeCommit
\* having been invoked.
C2_CancelExitsClean ==
    lastAnswer \in {"cancel", "no"} =>
        pc = "exited" /\ exitCode = 0 /\ commitCalls = 0 /\ committed = Undef

C2_Witness ==
    /\ lastAnswer = "cancel"
    /\ lastPrompt = <<"confirmLoop", "edit", "description">>
    /\ exitCode = 0

\* C3: the string handed to executeCommit is the preview the user answered 'yes'
\* to, and it is buildCommitMessage of the record as it stands at that moment.
C3_CommittedIsConfirmedPreview ==
    [][commitCalls' # commitCalls =>
          /\ committed' = preview
          /\ committed' = buildCommitMessage(commitData)
          /\ commitData' = commitData]_vars

\* a commit of a record that was accepted from the review menu and then edited
\* in the final confirmation loop
C3_Witness ==
    /\ commitCalls = 1
    /\ ~wasEdited
    /\ commitData.willPublish # "undefined"
    /\ committed = buildCommitMessage(commitData)

\* C4: when getStagedDiff returns absent at the start, the run reports the
\* no-staged-changes error and exits with code 1 before any prompt, probe,
\* generation or commit.
C4_NoStagedChangesExits ==
    diff = Null =>
        /\ pc = "exited"
        /\ exitCode = 1
        /\ shown = {"error: no changes staged for commit"}
        /\ ~prompted
        /\ probeCalls = 0
        /\ genCalls = 0
        /\ commitCalls = 0

C4_Witness == diff = Null /\ exitCode = 1

\* C5: the type of the record is always one of the 11 tags of COMMIT_TYPES,
\* whichever path produced the record.
C5_TypeAlwaysValid ==
    commitData # NoRecord => validateCommitType(commitData.type)

\* C6: a record that reaches the final confirmation or is committed has a
\* non-empty breakingDescription whenever isBreaking is true.
C6_BreakingHasDescription ==
    (pc = "confirm" \/ commitCalls = 1) /\ commitData.isBreaking =>
        Truthy(commitData.breakingDescription)

\* C7: under the publish flag a generated candidate whose type is outside
\* {feat, fix, perf} is never put to the review menu: the step that receives it
\* opens the edit form on it.
C7_NonPublishableForcesEdit ==
    /\ [](pc = "review" /\ flags.publish => commitData.type \in {feat, fix, perf})
    /\ [][pc = "generating" /\ flags.publish /\ commitData' # NoRecord
           /\ commitData'.type \notin {feat, fix, perf} =>
              pc' = "form" /\ formKind' = "edit" /\ formCaller' = "getCommitData"]_vars

\* the edit form forced on a regenerated candidate of type docs
C7_Witness ==
    /\ flags.publish
    /\ pc = "form"
    /\ formKind = "edit"
    /\ lastPrompt = NoPrompt
    /\ commitData.type = docs
    /\ genCalls = MaxGen

\* C8: under the publish flag the committed message has a type among feat, fix
\* and perf.
C8_PublishCommitsPublishable ==
    flags.publish =>
        /\ pc = "confirm" => commitData.type \in {feat, fix, perf}
        /\ commitCalls = 1 => MessageType(committed) \in {feat, fix, perf}

C8_Witness ==
    /\ flags.publish
    /\ commitCalls = 1
    /\ ollamaReady = "true"
    /\ wasEdited

\* C9: when the probe reports the draft generator unreachable the run goes to
\* the manual flow and generateCommitMessage is never invoked.
C9_UnreachableGoesManual ==
    /\ [](ollamaReady = "false" => genCalls = 0 /\ pc \notin {"generating", "review"})
    /\ [][ollamaReady = "unset" /\ ollamaReady' = "false" =>
              pc' = "form" /\ formKind' = "manual" /\ formCaller' = "getCommitData"]_vars

C9_Witness ==
    /\ ollamaReady = "false"
    /\ commitCalls = 1
    /\ wasEdited

\* C10: under the noAi flag neither the probe nor the generation call is ever
\* invoked, and the record comes from the manual flow.
C10_NoAiIsManual ==
    flags.noAi =>
        /\ probeCalls = 0
        /\ genCalls = 0
        /\ ollamaReady = "unset"
        /\ pc \notin {"probe", "generating", "review"}
        /\ pc = "form" /\ formCaller = "getCommitData" => formKind = "manual"
        /\ pc \in {"placement", "confirm"} =>
              wasEdited /\ commitData.willPublish # "undefined"

C10_Witness ==
    /\ flags.noAi
    /\ commitCalls = 1
    /\ wasEdited


----------------------------------------------------------------------------

ReviewMenu == <<"getCommitData", "menu", "review">>

PlacementMenu == <<"main", "menu", "placement">>

\* " [<ref>]" and "Refs #<ref>" for the reference of this run
RefInHeader == <<" ", "[">> \o branchRef \o <<"]">>
RefInFooter == <<"R","e","f","s"," ","#">> \o branchRef

\* the step in which getCommitData returns to main
GetCommitDataReturns ==
    /\ pc = "review" \/ (pc = "form" /\ formCaller = "getCommitData")
    /\ pc' \in {"placement", "confirm"}

\* the step in which an edit of the final confirmation loop returns
LoopEditReturns == pc = "form" /\ formCaller = "confirmLoop" /\ pc' = "confirm"

\* C11: when a generation call fails, on the first call or on one triggered by
\* 'regenerate', the step logs the error and the fall-back warning and opens
\* the manual form of getCommitData; from then on the generator is never
\* called again in the run.
C11_FailureFallsBackForGood ==
    [][/\ (pc = "generating" /\ genFailed'
            => /\ pc' = "form" /\ formKind' = "manual" /\ formCaller' = "getCommitData"
               /\ {"error: failed to generate with AI",
                   "warn: falling back to manual mode"} \subseteq shown'
               /\ genCalls' = genCalls)
       /\ (genFailed => genFailed' /\ genCalls' = genCalls /\ pc' # "generating")]_vars

\* a regenerated call failed and the run went on, through the manual form, to a commit
C11_Witness ==
    genFailed /\ genCalls = MaxGen /\ pc = "exited" /\ commitCalls = 1 /\ wasEdited

\* what main holds after 'accept': the candidate, with scope '' turned into
\* undefined under -ns (index.js 135) and the reference appended when the
\* header placement is forced (index.js 143-147), every other field as it was
AcceptedCandidate ==
    /\ \A f \in {"willPublish", "type", "isBreaking", "breakingDescription", "footer"} :
          commitData'[f] = commitData[f]
    /\ \/ commitData'.scope = commitData.scope
       \/ flags.noScope /\ commitData.scope = Empty /\ commitData'.scope = Undef
    /\ \/ commitData'.description = commitData.description
       \/ /\ flags.branchInHeader /\ Truthy(branchRef) /\ pc' = "confirm"
          /\ commitData'.description = commitData.description \o RefInHeader

\* C12: in the review loop 'regenerate' goes back to the generator with exactly
\* one more call, and the candidate shown next is the one that call returned;
\* 'accept', 'edit' and 'manual' leave the loop without a call; 'accept' hands
\* on the candidate with its fields unchanged and 'manual' opens the manual form
\* with a blank record.
C12_ReviewLoop ==
    [][/\ (pc = "review" /\ lastAnswer' = "regenerate"
            => pc' = "generating" /\ genCalls' = genCalls + 1)
       /\ (pc = "generating" /\ pc' = "review"
            => preview' = DraftPreview(commitData') /\ commitData' # NoRecord)
       /\ (pc = "review" /\ lastAnswer' \in {"accept", "edit", "manual"}
            => pc' \notin {"review", "generating"} /\ genCalls' = genCalls)
       /\ (pc = "review" /\ lastAnswer' = "accept"
            => pc' \in {"placement", "confirm"} /\ ~wasEdited' /\ AcceptedCandidate)
       /\ (pc = "review" /\ lastAnswer' = "edit"
            => pc' = "form" /\ formKind' = "edit" /\ commitData' = commitData)
       /\ (pc = "review" /\ lastAnswer' = "manual"
            => /\ pc' = "form" /\ formKind' = "manual"
               /\ commitData' = NoRecord
               /\ results' \in {NoResults, [NoResults EXCEPT !.willPublish = TRUE]})]_vars

\* the candidate of a regenerated call was accepted
C12_Witness ==
    pc = "confirm" /\ lastAnswer = "accept" /\ lastPrompt = ReviewMenu
    /\ genCalls = MaxGen /\ ~wasEdited

\* C13: without a branch reference the placement prompt is never shown and the
\* description and footer of the record are left as they were; with a reference
\* the header is forced without a prompt iff -h is set and the record was not
\* edited, and otherwise the placement menu is shown.
C13_PlacementDecision ==
    /\ [](pc = "placement" => Truthy(branchRef) /\ ~(flags.branchInHeader /\ ~wasEdited))
    /\ [][GetCommitDataReturns =>
            LET description == IF pc = "review" THEN commitData.description
                               ELSE results.description
            IN /\ (~Truthy(branchRef) => pc' = "confirm"
                                         /\ commitData'.description = description
                                         /\ placementsDone' = 0)
               /\ (Truthy(branchRef) =>
                      (pc' = "confirm" <=> flags.branchInHeader /\ ~wasEdited'))
               /\ (Truthy(branchRef) /\ pc' = "confirm" =>
                      commitData'.description = description \o RefInHeader)
               /\ (pc' = "placement" => commitData'.description = description)]_vars

\* the header was forced for an accepted candidate
C13_Witness ==
    /\ pc = "confirm" /\ lastAnswer = "accept" /\ flags.branchInHeader
    /\ Truthy(branchRef) /\ ~wasEdited /\ placementsDone = 1

C15_PlacementOnce ==
    /\ [](/\ placementsDone <= 1
          /\ (pc = "confirm" => placementsDone = (IF Truthy(branchRef) THEN 1 ELSE 0))
          /\ (pc = "form" /\ formCaller = "confirmLoop"
                => placementsDone = (IF Truthy(branchRef) THEN 1 ELSE 0)))
    /\ [][/\ (pc = "form" /\ formCaller = "confirmLoop" /\ pc' # "exited" /\ pc' # "form"
                => LoopEditReturns)
          /\ (LoopEditReturns
                => /\ placementsDone' = placementsDone
                   /\ commitData'.description = results.description
                   /\ commitData'.footer = commitData.footer)]_vars

\* an edit round of the final loop came back after the reference was put in the header
C15_Witness ==
    /\ pc = "confirm" /\ lastPrompt[1] = "confirmLoop" /\ lastAnswer = "value"
    /\ placementsDone = 1 /\ Truthy(branchRef)
    /\ \E k \in 1..Len(commitData.description) :
          SubSeq(commitData.description, k, Len(commitData.description)) = RefInHeader


\* C16: a header longer than the limit of 72 never blocks progression: no
\* prompt of the manual form or of the edit form stays open because of the
\* length of the header.
C16_LongHeaderNeverBlocks ==
    ~(pc = "form" /\ lastAnswer = "invalid" /\ "Header too long" \in shown)

\* what C17 requires of a record that comes out of a form
ValidFormRecord(data) ==
    /\ ~Truthy(data.scope) \/ MatchesScopeRegex(data.scope)
    /\ Truthy(data.description) /\ ~IsBlank(data.description)
    /\ data.description[Len(data.description)] # "."
    /\ data.isBreaking =>
          Truthy(data.breakingDescription) /\ ~IsBlank(data.breakingDescription)

\* C17: every record the manual form or the edit form returns has a scope that
\* is empty or matches ^[A-Za-z0-9_-]+$, a description that is non-blank and
\* does not end in '.', and a non-blank breakingDescription when isBreaking is
\* true; a rejected entry leaves the form on the same field, with the answers so
\* far untouched, and the run goes on.
C17_ValidationBlocks ==
    [][/\ (pc = "form" /\ pc' \in {"placement", "confirm"} => ValidFormRecord(commitData'))
       /\ (pc = "form" /\ lastAnswer' = "invalid"
            => /\ pc' = "form" /\ exitCode' = -1
               /\ formKind' = formKind /\ field' = field /\ results' = results
               /\ shown' # {})]_vars

\* the edit form refused a scope and stayed on the scope prompt
C17_Witness ==
    /\ pc = "form" /\ formKind = "edit" /\ field = "scope" /\ lastAnswer = "invalid"
    /\ lastPrompt = <<formCaller, "edit", "scope">>


\* a rendered message whose header has a "(scope)" part: the first of ( ! : in
\* it is an opening parenthesis
HasScopePart(msg) ==
    LET stops == {i \in 1..Len(msg) : msg[i] \in {"(", "!", ":"}}
        k == CHOOSE i \in stops : \A j \in stops : i <= j
    IN stops # {} /\ msg[k] = "("

\* C18: under the noScope flag no form ever shows the scope prompt, the
\* candidate under review has its scope cleared, and the message handed to
\* executeCommit has no "(scope)" part in its header.
C18_NoScopeNeverInHeader ==
    flags.noScope =>
        /\ ~(pc = "form" /\ field = "scope")
        /\ lastPrompt[3] # "scope"
        /\ (pc = "review" => commitData.scope = Empty)
        /\ (commitCalls = 1 => ~HasScopePart(committed))

\* C19: the flags of a run never change, and a record that comes out of the
\* manual form or the edit form reaches the placement step or the confirmation
\* with the type, scope, description and willPublish the form collected: main's
\* use of the flags after getCommitData changes none of them.
C19_FlagsLeaveFormRecord ==
    [][/\ flags' = flags
       /\ (pc = "form" /\ pc' \in {"placement", "confirm"}
            => /\ commitData'.type = results.type
               /\ commitData'.scope = results.scope
               /\ commitData'.description = results.description
               /\ commitData'.willPublish = (IF results.willPublish THEN "true" ELSE "false")
               /\ (formCaller = "getCommitData" => wasEdited'))]_vars

\* a form record came back to main in a run with -p, -h and -ns and a reference
C19_Witness ==
    /\ pc = "placement" /\ lastAnswer = "value" /\ wasEdited
    /\ flags.noScope /\ flags.branchInHeader /\ flags.publish /\ Truthy(branchRef)

\* the messages executeCommit can fail with
CommitErrors ==
    {"Not a git repository", "No changes staged for commit",
     "Failed to check git status", "Failed to create commit"}

\* C20: a run ends with code 0 exactly when the commit succeeded or the user
\* aborted (cancel or 'no'), and with code 1 exactly when there were no staged
\* changes, executeCommit returned a failure, or an exception reached the catch
\* block of main; a run that has not ended has no exit code.
C20_ExitCodes ==
    LET succeeded == commitCalls = 1 /\ shown = {"Commit created successfully!"}
        aborted == lastAnswer \in {"cancel", "no"}
        noStaged == ~Truthy(diff)
        commitFailed == commitCalls = 1 /\ shown # {} /\ shown \subseteq CommitErrors
        threw == lastAnswer = "throw"
    IN /\ (pc # "exited" => exitCode = -1)
       /\ (pc = "exited" =>
             /\ exitCode \in {0, 1}
             /\ (exitCode = 0 <=> succeeded \/ aborted)
             /\ (exitCode = 1 <=> noStaged \/ commitFailed \/ threw))

\* git refused the commit after the user's 'yes'
C20_Witness ==
    /\ pc = "exited" /\ exitCode = 1 /\ commitCalls = 1 /\ lastAnswer = "yes"
    /\ shown = {"Failed to create commit"}


----------------------------------------------------------------------------
(* Properties of the functions called on their own (PureSpec) *)

Returned(fn) == pureFn = fn /\ pureDone

\* a field that is present and not the empty string
NonEmpty(v) == v \notin {Undef, Null, Empty}

\* the text up to the first newline
FirstLine(text) ==
    LET breaks == {i \in 1..Len(text) : text[i] = "\n"}
    IN IF breaks = {} THEN text
       ELSE SubSeq(text, 1, (CHOOSE i \in breaks : \A j \in breaks : i <= j) - 1)

\* the number of places where pattern occurs in text
Occurrences(pattern, text) ==
    Cardinality({i \in 1..Len(text) :
                    /\ i + Len(pattern) - 1 <= Len(text)
                    /\ SubSeq(text, i, i + Len(pattern) - 1) = pattern})

BreakingMarker == <<"B","R","E","A","K","I","N","G"," ","C","H","A","N","G","E",":">>

\* the text C21 prescribes for a record
RenderedAsStated(r) ==
    LET first == IF Len(r.description) = 0 THEN Empty
                 ELSE <<ToLowerCase(r.description[1])>>
        rest == IF Len(r.description) = 0 THEN Empty ELSE Tail(r.description)
    IN r.type
       \o (IF NonEmpty(r.scope) THEN <<"(">> \o r.scope \o <<")">> ELSE Empty)
       \o (IF r.isBreaking THEN <<"!">> ELSE Empty)
       \o <<":", " ">> \o first \o rest
       \o (IF r.isBreaking /\ NonEmpty(r.breakingDescription)
           THEN <<"\n", "\n">> \o BreakingMarker \o <<" ">> \o r.breakingDescription
           ELSE Empty)
       \o (IF NonEmpty(r.footer) THEN <<"\n", "\n">> \o r.footer ELSE Empty)

\* C21: buildCommitMessage returns exactly type, "(scope)" iff scope is
\* non-empty, "!" iff isBreaking, ": ", the description with its first character
\* lowercased; then a blank line and "BREAKING CHANGE: <breakingDescription>" iff
\* isBreaking and breakingDescription is non-empty; then a blank line and the
\* footer iff footer is non-empty.
C21_RenderExact ==
    Returned("buildCommitMessage") => pureOut = RenderedAsStated(pureArg)

\* a breaking record with an empty-string scope, an uppercase first letter, a
\* body and a footer was rendered
C21_Witness ==
    /\ Returned("buildCommitMessage")
    /\ pureArg.scope = Empty /\ pureArg.isBreaking
    /\ pureArg.breakingDescription = <<"x">>
    /\ pureArg.footer = <<"R","e","f","s"," ","#","1">>
    /\ pureArg.description = <<"A", "1">>

MarkerFree(r) ==
    \A f \in {"type", "scope", "description", "breakingDescription", "footer"} :
        NonEmpty(r[f]) => Occurrences(BreakingMarker, r[f]) = 0

C24_ScopeValidator ==
    Returned("validateScope") =>
        pureOut = (IF ~NonEmpty(pureArg) THEN TRUE
                   ELSE \A i \in 1..Len(pureArg) : pureArg[i] \in ScopeChars)

\* C25: validateDescription fails with the empty reason for an absent, empty
\* or blank description, otherwise with the trailing-period reason for a
\* description ending in '.', and otherwise returns valid.
C25_DescriptionValidator ==
    Returned("validateDescription") =>
        LET d == pureArg
            blank == ~NonEmpty(d) \/ \A i \in 1..Len(d) : d[i] \in {" ", "\t", "\n"}
        IN pureOut = (IF blank THEN "Description is required"
                      ELSE IF d[Len(d)] = "." THEN "Description should not end with a period"
                      ELSE "ok")

\* '.' alone was refused for its period, and not as empty
C25_Witness ==
    /\ Returned("validateDescription") /\ pureArg = <<".">>
    /\ pureOut = "Description should not end with a period"

C27_BranchReference ==
    Returned("getBranchReference") =>
        IF pureArg = Undef THEN pureOut = Null
        ELSE LET name == SubSeq(pureArg, 1, Len(pureArg) - 1)
                 slashes == {i \in 1..Len(name) : name[i] = "/"}
             IN IF slashes = {} THEN pureOut = Null
                ELSE \E i \in slashes :
                        /\ \A j \in slashes : i <= j
                        /\ IF i = Len(name) THEN pureOut = Null
                           ELSE pureOut = SubSeq(name, i + 1, Len(name))

\* a name with two slashes gave a reference that keeps the second one
C27_Witness ==
    /\ Returned("getBranchReference")
    /\ pureArg = <<"a", "/", "b", "/", "\n">>
    /\ pureOut = <<"b", "/">>


----------------------------------------------------------------------------
(* Properties of the forms and of the draft generator (Spec) *)

\* the prompt that follows the accepted answer to f, "none" when the form is
\* over: the fixed order with its skips; res holds the answers including f's
NextAsked(kind, f, res) ==
    IF f = "willPublish" THEN "type"
    ELSE IF f = "type" THEN (IF flags.noScope THEN "description" ELSE "scope")
    ELSE IF f = "scope" THEN "description"
    ELSE IF f = "description" THEN "isBreaking"
    ELSE IF f = "isBreaking" /\ res.isBreaking THEN "breakingDescription"
    ELSE IF f \in {"isBreaking", "breakingDescription"} /\ kind = "manual" THEN "footer"
    ELSE "none"

\* C28 as stated: the edit form asks the fields of the manual flow, footer
\* included: whichever form has just resolved, the last prompt it showed was
\* the footer prompt.
C28_EditAsksManualFields ==
    pc \in {"placement", "confirm"} /\ lastAnswer = "value" => lastPrompt[3] = "footer"

\* C28 as amended: the edit form asks willPublish, type, scope, description,
\* isBreaking and breakingDescription in the order and with the skips of the
\* manual flow, and never footer; the record it returns passes the validators,
\* takes type, scope and description from the answers and keeps the footer of
\* the record that was edited.
C28_EditFormFields ==
    /\ [](pc = "form" /\ formKind = "edit" =>
            field \in {"willPublish", "type", "scope", "description", "isBreaking",
                       "breakingDescription"})
    /\ [][pc = "form" /\ formKind = "edit" /\ lastAnswer' = "value" =>
            /\ field' = NextAsked("edit", field, results')
            /\ (pc' # "form" =>
                  /\ ValidFormRecord(commitData')
                  /\ commitData'.type = results.type
                  /\ commitData'.scope = results.scope
                  /\ commitData'.description = results.description
                  /\ commitData'.footer = commitData.footer)]_vars

\* the edit form returned the type and the description it was pre-filled with
C28_Witness ==
    /\ pc = "confirm" /\ lastAnswer = "value" /\ lastPrompt[2] = "edit"
    /\ commitData.type = fix
    /\ commitData.description = <<"U","p","d","a","t","e">>
    /\ commitData.footer = Empty

\* C29: the manual flow starts on willPublish, or on type with willPublish
\* taken as true iff the publish flag is set; after each accepted answer it shows
\* the next field of willPublish, type, scope, description, isBreaking,
\* breakingDescription, footer, leaving out scope iff noScope is set and
\* breakingDescription iff isBreaking was answered false, and it ends after
\* footer; the type select offers {feat, fix, perf} when willPublish is true and
\* the 11 types otherwise.
C29_ManualFlowOrder ==
    /\ [](pc = "form" /\ formKind = "manual" =>
            /\ (field = "willPublish" => ~flags.publish)
            /\ (field = "scope" => ~flags.noScope)
            /\ (field = "breakingDescription" => results.isBreaking)
            /\ (field # "willPublish" /\ flags.publish => results.willPublish)
            /\ (field = "type" =>
                  TypeOptions(results) =
                      IF results.willPublish THEN {feat, fix, perf}
                      ELSE {feat, fix, docs, style, refactor, perf, test, build, ci,
                            chore, revert}))
    /\ [][/\ (pc # "form" /\ pc' = "form" /\ formKind' = "manual" =>
                field' = IF flags.publish THEN "type" ELSE "willPublish")
          /\ (pc = "form" /\ formKind = "manual" /\ lastAnswer' = "value" =>
                /\ field' = NextAsked("manual", field, results')
                /\ (pc' # "form" <=> field = "footer"))]_vars

\* with -p and -ns the flow went from a breaking answer through the breaking
\* description to the footer prompt
C29_Witness ==
    /\ pc = "form" /\ formKind = "manual" /\ field = "footer"
    /\ lastPrompt[3] = "breakingDescription" /\ lastAnswer = "value"
    /\ flags.publish /\ flags.noScope /\ results.type = feat

\* C30: in publish mode the draft flow passes {feat, fix, perf} as allowedTypes,
\* and a candidate the generator returned for that call has one of these types.
C30_CandidateTypeAllowed ==
    flags.publish =>
        /\ generateOptions.allowedTypes = {feat, fix, perf}
        /\ (pc = "review" \/ (pc = "form" /\ formKind = "edit" /\ formCaller = "getCommitData")
              => commitData.type \in generateOptions.allowedTypes)


----------------------------------------------------------------------------
(* Failures and what the user is told *)

\* C31: every failure path produces a user-visible message before the run
\* terminates: when the process has exited, each failed call (reading the staged
\* diff, reading the branch name, the probe, the generation, executeCommit) has
\* been followed by a message about it
C31_FailuresAreReported ==
    pc = "exited" => unreported = {}


----------------------------------------------------------------------------
(* The draft preview and its header warning *)

\* C32: the reference shown in the draft preview is spliced into a copy: while
\* the review menu is open the candidate has a description the generator
\* returned and the preview is that candidate rendered with the reference, and
\* a candidate accepted from the menu reaches the placement step with that
\* description
C32_PreviewIsProvisional ==
    /\ [](pc = "review" =>
            /\ commitData.description \in JsonDescriptions
            /\ preview = buildCommitMessage(
                    IF Truthy(branchRef)
                    THEN [commitData EXCEPT !.description = @ \o RefInHeader]
                    ELSE commitData))
    /\ [][pc = "review" /\ lastAnswer' = "accept" /\ pc' = "placement" =>
            /\ commitData'.description = commitData.description
            /\ commitData'.description \in JsonDescriptions]_vars

\* an accepted candidate waits for its placement with the generator's
\* description, after a preview that showed the reference
C32_Witness ==
    /\ pc = "placement"
    /\ lastAnswer = "accept"
    /\ Truthy(branchRef)
    /\ commitData.description = LongDesc

\* what the reference adds to the header when -h will put it there
PendingOverhead ==
    IF flags.branchInHeader /\ Truthy(branchRef) THEN Len(RefInHeader) ELSE 0

\* C33: in the draft flow the header warning is issued if and only if the length
\* of the candidate's header plus the length of ' [<ref>]', for a reference the
\* -h flag will put in the header, exceeds 72
C33_DraftWarningCountsReference ==
    pc = "review" =>
        (("warn: header is too long" \in shown)
           <=> Len(Header(commitData)) + PendingOverhead > HeaderLimit)

\* the candidate's header fits on its own and the warning is there because of
\* the reference
C33_Witness ==
    /\ pc = "review"
    /\ "warn: header is too long" \in shown
    /\ Len(Header(commitData)) <= HeaderLimit
    /\ PendingOverhead > 0


----------------------------------------------------------------------------
(* The order of the states of a run and its end *)

\* the position of the run in the sequence probe, draft or manual flow, review
\* loop, branch placement, final confirmation, commit or abort; a regenerated
\* request and the edit form opened on a candidate count as the review loop
ClaimStage ==
    IF pc = "start" THEN 0
    ELSE IF pc = "probe" THEN 1
    ELSE IF pc = "generating" THEN (IF genCalls > 1 THEN 3 ELSE 2)
    ELSE IF pc = "form" /\ formCaller = "getCommitData"
         THEN (IF formKind = "manual" THEN 2 ELSE 3)
    ELSE IF pc = "review" THEN 3
    ELSE IF pc = "placement" THEN 4
    ELSE IF pc \in {"confirm", "form"} THEN 5
    ELSE 6

\* C34 (as stated): the states are visited in the order probe, draft or manual
\* flow, review loop, branch placement, final confirmation, commit or abort, and
\* no state is entered after a later one
C34_StatesInClaimedOrder ==
    [][ClaimStage' >= ClaimStage]_vars

\* the same sequence with getCommitData as one state: the draft flow, the
\* review loop and the forms they open
RunStage ==
    IF pc = "start" THEN 0
    ELSE IF pc = "probe" THEN 1
    ELSE IF pc \in {"generating", "review"} \/ (pc = "form" /\ formCaller = "getCommitData")
         THEN 2
    ELSE IF pc = "placement" THEN 3
    ELSE IF pc \in {"confirm", "form"} THEN 4
    ELSE 5

CommitAttempted == commitCalls = 1 /\ lastAnswer = "yes" /\ exitCode \in {0, 1}

Aborted == commitCalls = 0 /\ lastAnswer \in {"cancel", "no"} /\ exitCode = 0

ErrorExit == commitCalls = 0 /\ (lastAnswer = "throw" \/ ~Truthy(diff)) /\ exitCode = 1

\* C34 (amended): every run ends, in exactly one of commit attempted, abort
\* and error exit; it goes through probe, getCommitData (draft flow, review loop
\* and the manual or edit form, the manual form also when it is opened from
\* the review loop or after a failed generation), branch placement and final
\* confirmation in that order, no state is entered after a later one, and the
\* form of getCommitData is followed by neither a generation nor a review
C34_RunEndsInOrder ==
    /\ <>(pc = "exited")
    /\ [](pc = "exited" =>
            /\ CommitAttempted \/ Aborted \/ ErrorExit
            /\ ~(CommitAttempted /\ Aborted)
            /\ ~(CommitAttempted /\ ErrorExit)
            /\ ~(Aborted /\ ErrorExit))
    /\ [][/\ RunStage' >= RunStage
          /\ (pc = "form" /\ formCaller = "getCommitData" =>
                 pc' \notin {"generating", "review"})]_vars

\* a run that went round the review loop, through the manual form and the
\* placement prompt, and handed a message to git
C34_Witness ==
    /\ pc = "exited"
    /\ CommitAttempted
    /\ genCalls = MaxGen
    /\ placementsDone = 1
    /\ wasEdited
    /\ commitData.footer # Empty


----------------------------------------------------------------------------
(* executeCommit and generateCommitMessage called on their own *)

\* C35: executeCommit always returns a result and checks in order: when the
\* repository check fails it returns the not-a-repository error without looking
\* at the staged files or running the commit; when no file is staged it returns
\* the nothing-staged error without running the commit; it returns success only
\* when the repository check, the staged check and the commit all succeeded
C35_ExecuteCommitChecksInOrder ==
    Returned("executeCommit") =>
        /\ pureOut.success \in BOOLEAN
        /\ (~pureArg.git.repo =>
               /\ ~pureOut.success /\ pureOut.error = "Not a git repository"
               /\ ~pureOut.checked /\ ~pureOut.ran)
        /\ (pureArg.git.repo /\ pureArg.git.status = "empty" =>
               /\ ~pureOut.success /\ pureOut.error = "No changes staged for commit"
               /\ ~pureOut.ran)
        /\ (pureOut.success =>
               /\ pureArg.git.repo /\ pureArg.git.status = "files" /\ pureArg.git.commit
               /\ pureOut.checked /\ pureOut.ran)
        /\ (~pureOut.success => pureOut.error # "none")

\* outside a repository with nothing staged, the repository error is the one
\* returned
C35_Witness ==
    /\ Returned("executeCommit")
    /\ ~pureArg.git.repo
    /\ pureArg.git.status = "empty"
    /\ pureOut.error = "Not a git repository"

\* a JSON value that is a string with at least one character
NonEmptyString(v) ==
    v \notin {Undef, Null, Empty, JsonTrue, JsonFalse, JsonEmptyArray}

\* C38: a candidate returned by generateCommitMessage has a non-empty string
\* type and description, a boolean isBreaking, a scope and a breakingDescription
\* that are the empty string when the response has none, and an empty footer;
\* a response that is not JSON or has no type or no description makes the call
\* fail
C38_CandidateShape ==
    Returned("generateCommitMessage") =>
        /\ (pureOut.ok =>
               /\ NonEmptyString(pureOut.data.type)
               /\ NonEmptyString(pureOut.data.description)
               /\ pureOut.data.isBreaking \in BOOLEAN
               /\ (pureArg.json.scope = Undef => pureOut.data.scope = Empty)
               /\ (pureArg.json.breakingDescription = Undef =>
                      pureOut.data.breakingDescription = Empty)
               /\ pureOut.data.footer = Empty)
        /\ (\/ pureArg.kind # "json"
            \/ pureArg.json.type = Undef
            \/ pureArg.json.description = Undef
              => ~pureOut.ok)


----------------------------------------------------------------------------
(* The footer under edits, and what counts as edited *)

\* the final confirmation loop: its menu, or the edit form it opened
InFinalLoop == pc = "confirm" \/ (pc = "form" /\ formCaller = "confirmLoop")

\* the footer ends with the line 'Refs #<ref>'
EndsWithRef(footer) ==
    /\ Truthy(branchRef)
    /\ Len(footer) >= Len(RefInFooter)
    /\ SubSeq(footer, Len(footer) - Len(RefInFooter) + 1, Len(footer)) = RefInFooter

\* C36: the edit form never changes the footer: the record it returns has the
\* footer of the record it was opened on, and from the first preview of the
\* final confirmation loop on the footer stays what the placement step made it,
\* however many edits follow
C36_EditKeepsFooter ==
    [][/\ (pc = "form" /\ formKind = "edit" /\ pc' \in {"placement", "confirm"} =>
             commitData'.footer = commitData.footer)
       /\ (InFinalLoop /\ pc' # "exited" =>
             /\ commitData'.footer = commitData.footer
             /\ (EndsWithRef(commitData.footer) => EndsWithRef(commitData'.footer)))]_vars

\* an edit of the final loop has returned and the footer still ends with the
\* reference line the placement added to what the user had typed
C36_Witness ==
    /\ pc = "confirm"
    /\ lastPrompt[1] = "confirmLoop"
    /\ lastAnswer = "value"
    /\ EndsWithRef(commitData.footer)
    /\ Len(commitData.footer) > Len(RefInFooter)

\* C37: getCommitData returns wasEdited = false if and only if it returns a
\* generated candidate taken through 'accept' in the review menu; every return
\* through a form (noAi, probe failure, generation failure, 'edit', 'manual', the
\* forced edit) is wasEdited = true, and with -h and a reference such a return
\* leads to the placement prompt, the header not being forced
C37_UneditedIffAccepted ==
    [][GetCommitDataReturns =>
         /\ (~wasEdited' <=> (pc = "review" /\ lastAnswer' = "accept"))
         /\ (pc = "form" => wasEdited')
         /\ (wasEdited' /\ flags.branchInHeader /\ Truthy(branchRef) =>
                /\ pc' = "placement"
                /\ placementsDone' = placementsDone
                /\ commitData'.description = results.description)]_vars

\* under -h the manual form that followed a failed generation has returned and
\* the placement is asked
C37_Witness ==
    /\ pc = "placement"
    /\ flags.branchInHeader
    /\ wasEdited
    /\ genFailed
    /\ lastAnswer = "value"

====
